---- MODULE Spec2Model ----
(***************************************************************************)
(* SecureBank transaction pipeline: src/lambda_function.py.                *)
(*                                                                         *)
(* Units.  Money is counted in mills (1/1000 of a currency unit), so that  *)
(* round(x, 2) is a real rounding.  A risk signal is counted in            *)
(* thousandths (1000 = 1.0) and the weighted composite in ten-thousandths  *)
(* (10000 = 1.0), which is exact for the weights 0.4/0.3/0.2/0.1.  Time is *)
(* counted in minutes; hour of day = (t \div 60) % 24.                     *)
(***************************************************************************)
EXTENDS Integers, Sequences, FiniteSets, TLC

VARIABLES
    pc,                  \* position inside lambda_handler / process_transaction
    nrec,                \* number of records of the event
    idx,                 \* records taken from the event so far
    record,              \* the record being handled (decoded payload or undecodable)
    txn,                 \* validated_transaction / enriched_transaction
    profile,             \* customer_profile held by process_transaction
    window,              \* recent_transactions held by process_transaction
    assessment,          \* fraud_analysis
    customers_table,     \* DynamoDB customers table: customer_id -> item
    transactions_table,  \* DynamoDB transactions table: set of items, key (customer_id, timestamp)
    now,                 \* the wall clock, datetime.now()
    processed_count,     \* lambda_handler counters
    error_count,
    fraud_count,
    result,              \* what process_transaction returned / raised for the record
    trace,               \* steps entered for the current record, in order
    calls,               \* collaborator operations invoked for the current record
    failed,              \* steps of the current record whose collaborator call failed
    hist                 \* bookkeeping over the whole batch (never read by an action's
                         \* guard); under SpecConcurrent it also keeps the locals of the
                         \* invocation that is not running

vars == <<pc, nrec, idx, record, txn, profile, window, assessment, customers_table,
          transactions_table, now, processed_count, error_count, fraud_count, result,
          trace, calls, failed, hist>>

----------------------------------------------------------------------------
(* Bounds of the model *)

MaxRecords == 2
MaxWindow == 10

(* Program constants *)

FRAUD_THRESHOLD == 8000         \* 0.8 of the composite (ten-thousandths)
VELOCITY_THRESHOLD == 5
AMOUNT_THRESHOLD_MULTIPLIER == 3
WeightVelocity == 4             \* 0.4, in tenths
WeightAmount == 3
WeightLocation == 2
WeightTime == 1
AmountCeiling == 10000000       \* 10000 currency units, in mills
DaysPerMonth == 30
MilesPerDegree == 69
DistanceLimit == 500            \* miles
LocationCap == 800              \* 0.8
CeilingRisk == 800              \* 0.8
InternationalRisk == 600        \* 0.6
NightRisk == 400                \* 0.4
LateRisk == 200                 \* 0.2
ReasonLimit == 500              \* 0.5
HourMinutes == 60
LookbackHours == 24
QueryLimit == 50
DefaultSpend == 1000000         \* 1000.0, in mills
FallbackSpend == 500000         \* 500.0, in mills

Min(a, b) == IF a < b THEN a ELSE b
Max(a, b) == IF a > b THEN a ELSE b
Abs(a) == IF a < 0 THEN 0 - a ELSE a

----------------------------------------------------------------------------
(* Values *)

\* A JSON number as Python holds it ("num"), the string a DynamoDB number
\* becomes on the way back (boto3 returns every number as Decimal and
\* json.dumps(default=str) renders a Decimal as a string: "str"), a string
\* float() rejects ("bad"), or an absent / null value ("none").
Num(n) == [k |-> "num", v |-> n]
Str(n) == [k |-> "str", v |-> n]
Bad == [k |-> "bad", v |-> 0]
None == [k |-> "none", v |-> 0]

\* The float NaN, which json.loads reads from the literal NaN: every
\* comparison with it is false.
NaN == [k |-> "nan", v |-> 0]

\* Python truthiness of such a value: None and the number 0 are falsy, every
\* non-empty string is truthy.
Truthy(x) == x.k \in {"str", "bad", "nan"} \/ (x.k = "num" /\ x.v # 0)

\* float(x) succeeds
Floatable(x) == x.k \in {"num", "str"}

\* _convert_from_dynamodb_format on one attribute: a number comes back as a string
FromDynamo(x) == IF x.k = "num" THEN Str(x.v) ELSE x

\* A timestamp string: ok = datetime.fromisoformat accepts it, t = its instant (minutes)
Ts(t) == [ok |-> TRUE, t |-> t]
BadTs == [ok |-> FALSE, t |-> 0]

Hour(t) == (t \div HourMinutes) % 24

----------------------------------------------------------------------------
(* Fixed-point helpers *)

RECURSIVE Pow10(_)
Pow10(n) == IF n = 0 THEN 1 ELSE 10 * Pow10(n - 1)

\* 1.0 as a signal
Scale == Pow10(3)

\* the first `digits` decimals of r / den, for 0 <= r < den
RECURSIVE LongDiv(_, _, _)
LongDiv(r, den, digits) ==
    IF digits = 0 THEN 0
    ELSE ((r * 10) \div den) * Pow10(digits - 1) + LongDiv((r * 10) % den, den, digits - 1)

\* num / den as a signal (thousandths, truncated), for num >= 0 and den > 0
Ratio(num, den) == (num \div den) * Scale + LongDiv(num % den, den, 3)

\* floor of the square root
ISqrt(n) == CHOOSE r \in 0..(LocationCap + 1) : r * r <= n /\ (r + 1) * (r + 1) > n

\* round(x, 1 decimal digit fewer), half to even: x in units u/10 -> units u
RoundDiv(x, d) ==
    LET q == x \div d
        r == x % d
    IN  IF 2 * r > d \/ (2 * r = d /\ q % 2 = 1) THEN q + 1 ELSE q

----------------------------------------------------------------------------
(* FraudDetector *)

\* float(transaction['amount']), in mills
AmountOf(t) == t.amount.v

\* float(customer_profile.get('average_monthly_spend', 1000)), in mills
SpendOf(p) == IF p.average_monthly_spend.k = "none" THEN DefaultSpend
              ELSE p.average_monthly_spend.v

\* the last hour taken from the wall clock instead of the transaction
RecentCountByClock(t, recent) ==
    Cardinality({i \in DOMAIN recent : recent[i].timestamp.t > now - HourMinutes})

\* recent_count of _check_velocity_risk
RecentCount(t, recent) ==
    Cardinality({i \in DOMAIN recent :
                    recent[i].timestamp.t > t.timestamp.t - HourMinutes})

VelocityRaises(t, recent) ==
    /\ recent # <<>>
    /\ \/ ~t.timestamp.ok
       \/ \E i \in DOMAIN recent : ~recent[i].timestamp.ok

\* the velocity signal with the arriving transaction counted in
VelocityRiskCountingCurrent(t, recent) ==
    IF recent = <<>> THEN 0
    ELSE LET c == RecentCount(t, recent) + 1
         IN  IF c >= VELOCITY_THRESHOLD
             THEN Min(Scale, Ratio(c, VELOCITY_THRESHOLD * 2))
             ELSE 0

VelocityRisk(t, recent) ==
    IF recent = <<>> THEN 0
    ELSE LET c == RecentCount(t, recent)
         IN  IF c >= VELOCITY_THRESHOLD
             THEN Min(Scale, Ratio(c, VELOCITY_THRESHOLD * 2))
             ELSE 0

\* amount > avg_spend * M, with avg_spend = spend / 30, cleared of the division
AboveNormal(t, p) ==
    AmountOf(t) * DaysPerMonth > SpendOf(p) * AMOUNT_THRESHOLD_MULTIPLIER

\* avg_spend * M * 2, times 30
NormalTwice(p) == SpendOf(p) * AMOUNT_THRESHOLD_MULTIPLIER * 2

\* float() of a malformed spend, or the division by avg_spend * M * 2 = 0
AmountRaises(t, p) ==
    \/ p.average_monthly_spend.k = "bad"
    \/ AboveNormal(t, p) /\ NormalTwice(p) = 0

\* the amount signal without its min(1.0, ...)
AmountRiskUncapped(t, p) ==
    LET num == AmountOf(t) * DaysPerMonth
        den == NormalTwice(p)
    IN  IF AboveNormal(t, p)
        THEN IF den < 0 THEN 0 - Ratio(num, 0 - den)
             ELSE Ratio(num, den)
        ELSE IF AmountOf(t) > AmountCeiling THEN CeilingRisk
        ELSE 0

\* the amount signal with the absolute ceiling tested first
AmountRiskCeilingFirst(t, p) ==
    IF AmountOf(t) > AmountCeiling THEN CeilingRisk
    ELSE IF AboveNormal(t, p) THEN Min(Scale, AmountRiskUncapped(t, p))
    ELSE 0

AmountRisk(t, p) ==
    LET num == AmountOf(t) * DaysPerMonth
        den == NormalTwice(p)
    IN  IF AboveNormal(t, p)
        THEN IF den < 0 THEN 0 - Ratio(num, 0 - den)
             ELSE IF num >= den THEN Scale
             ELSE Ratio(num, den)
        ELSE IF AmountOf(t) > AmountCeiling THEN CeilingRisk
        ELSE 0

\* _calculate_distance, squared (miles^2): 0 when a coordinate is rejected by float()
DistanceSq(loc1, loc2) ==
    IF /\ Floatable(loc1.latitude) /\ Floatable(loc1.longitude)
       /\ Floatable(loc2.latitude) /\ Floatable(loc2.longitude)
    THEN LET dlat == Abs(loc1.latitude.v - loc2.latitude.v)
             dlon == Abs(loc1.longitude.v - loc2.longitude.v)
         IN  (dlat * dlat + dlon * dlon) * MilesPerDegree * MilesPerDegree
    ELSE 0

\* recent_transactions[-5:]
LastFive(recent) ==
    IF Len(recent) <= 5 THEN recent ELSE SubSeq(recent, Len(recent) - 4, Len(recent))

\* the entries of the distance loop that return
Far(t, recent) ==
    {i \in DOMAIN LastFive(recent) :
        /\ Truthy(LastFive(recent)[i].latitude)
        /\ Truthy(LastFive(recent)[i].longitude)
        /\ DistanceSq(t, LastFive(recent)[i]) > DistanceLimit * DistanceLimit}

\* the location signal without the home-country test
LocationRiskDistanceOnly(t, p, recent) ==
    IF recent # <<>> /\ Truthy(t.latitude) /\ Truthy(t.longitude) /\ Far(t, recent) # {}
    THEN LET i == CHOOSE j \in Far(t, recent) : \A k \in Far(t, recent) : j <= k
             d2 == DistanceSq(t, LastFive(recent)[i])
         IN  IF d2 >= LocationCap * LocationCap THEN LocationCap ELSE ISqrt(d2)
    ELSE 0

LocationRisk(t, p, recent) ==
    IF p.country = "US" /\ t.country # "US" THEN InternationalRisk
    ELSE IF recent # <<>> /\ Truthy(t.latitude) /\ Truthy(t.longitude) /\ Far(t, recent) # {}
    THEN LET i == CHOOSE j \in Far(t, recent) : \A k \in Far(t, recent) : j <= k
             d2 == DistanceSq(t, LastFive(recent)[i])
         IN  IF d2 >= LocationCap * LocationCap THEN LocationCap ELSE ISqrt(d2)
    ELSE 0

TimeRaises(t) == ~t.timestamp.ok

\* the time signal with the late-hours test first
TimeRiskLateFirst(t) ==
    LET hour == Hour(t.timestamp.t)
    IN  IF hour < 6 \/ hour > 22 THEN LateRisk
        ELSE IF 2 <= hour /\ hour <= 6 THEN NightRisk
        ELSE 0

TimeRisk(t) ==
    LET hour == Hour(t.timestamp.t)
    IN  IF 2 <= hour /\ hour <= 6 THEN NightRisk
        ELSE IF hour < 6 \/ hour > 22 THEN LateRisk
        ELSE 0

ScoreRaises(t, p, recent) ==
    VelocityRaises(t, recent) \/ AmountRaises(t, p) \/ TimeRaises(t)

risk_factors(t, p, recent) ==
    [velocity |-> VelocityRisk(t, recent),
     amount   |-> AmountRisk(t, p),
     location |-> LocationRisk(t, p, recent),
     time     |-> TimeRisk(t)]

\* total_risk before the clamp, in ten-thousandths
WeightedSum(f) ==
    f.velocity * WeightVelocity + f.amount * WeightAmount
      + f.location * WeightLocation + f.time * WeightTime

\* min(max(total_risk, 0.0), 1.0)
Clamp(x) == Min(Max(x, 0), Scale * 10)

\* is_fraud decided on the rounded score
IsFraudRounded(total) == RoundDiv(total, 10) * 10 > FRAUD_THRESHOLD

IsFraud(total) == total > FRAUD_THRESHOLD

\* calculate_risk_score, when no signal raises
calculate_risk_score(t, p, recent) ==
    LET f == risk_factors(t, p, recent)
        total == Clamp(WeightedSum(f))
    IN  [risk_score    |-> RoundDiv(total, 10),
         risk_factors  |-> f,
         is_fraud      |-> IsFraud(total),
         fraud_reasons |-> {s \in DOMAIN f : f[s] > ReasonLimit}]

----------------------------------------------------------------------------
(* Data of the model *)

Customers == {"c1", "c2"}

RequiredFields ==
    <<"customer_id", "amount", "currency", "merchant_id",
      "merchant_category", "timestamp", "location">>

AllFields == {RequiredFields[i] : i \in DOMAIN RequiredFields}

Currencies == {"USD", "EUR", "GBP", "CAD"}

NoId == 0                   \* no 'transaction_id' key in the payload

DayMinutes == LookbackHours * HourMinutes

Afternoon == 14 * HourMinutes + DayMinutes      \* 14:00 of the second day
Night == 3 * HourMinutes + 2 * DayMinutes       \* 03:00 of the third day
LongAgo == HourMinutes                          \* 01:00 of the first day

\* A decoded payload.  present: the keys it holds.
Payload(c, id, amount, country, lat, ts) ==
    [decodable |-> TRUE, present |-> AllFields, transaction_id |-> id,
     customer_id |-> c, amount |-> amount, currency |-> "USD",
     location_is_dict |-> TRUE, country |-> country,
     latitude |-> lat, longitude |-> Num(0 - 74), timestamp |-> ts]

Ordinary == Payload("c1", 1, Num(50000), "US", Num(40), Ts(Afternoon))
Abroad == Payload("c1", 2, Num(15000000), "CA", Num(52), Ts(Night))
Tiny == Payload("c1", NoId, Num(4), "US", Num(40), Ts(Afternoon + 1))
Other == Payload("c2", 3, Num(50000), "US", Num(40), Ts(Afternoon))
Undated == Payload("c1", 4, Num(50000), "US", Num(40), BadTs)
NoMerchant == [Ordinary EXCEPT !.present = AllFields \ {"merchant_id"}, !.transaction_id = 5]
Garbled == [Ordinary EXCEPT !.decodable = FALSE]

Payloads == {Ordinary, Abroad, Tiny, Other, Undated, NoMerchant, Garbled}

\* An item of the transactions table
TxnItem(c, id, lat, lon, ts) ==
    [customer_id |-> c, timestamp |-> ts, transaction_id |-> id,
     latitude |-> lat, longitude |-> lon]

\* n transactions of c1 in the minutes before Night, and one long ago
Burst(n) ==
    {TxnItem("c1", 10 + i, Num(40), Num(0 - 74), Ts(Night - i)) : i \in 1..n}
      \cup {TxnItem("c1", 10, Num(40), Num(0 - 74), Ts(LongAgo))}

\* An item of the customers table / a profile dict
ProfileOf(risk, spend, count, frauds, country) ==
    [risk_profile |-> risk, average_monthly_spend |-> spend,
     transaction_count |-> count, fraud_count |-> frauds, country |-> country]

NoItem == ProfileOf("absent", None, None, None, "none")

Existing == ProfileOf("low", Num(DefaultSpend), Num(5), Num(0), "US")

NoTxn == [Garbled EXCEPT !.present = {}]
NoAssessment ==
    [risk_score |-> 0,
     risk_factors |-> [velocity |-> 0, amount |-> 0, location |-> 0, time |-> 0],
     is_fraud |-> FALSE, fraud_reasons |-> {}]
NoResult == [status |-> "none", step |-> "none", transaction_id |-> NoId,
             risk_score |-> 0, is_fraud |-> FALSE]

Steps ==
    <<"validate", "fetch_profile", "fetch_history", "score", "persist",
      "archive", "update_profile", "metrics", "alert", "complete">>

StepNo(s) == CHOOSE i \in DOMAIN Steps : Steps[i] = s

----------------------------------------------------------------------------
(* TransactionProcessor: helpers *)

\* the first required field the payload lacks, or "none"
FirstMissing(t) ==
    IF \A i \in DOMAIN RequiredFields : RequiredFields[i] \in t.present THEN "none"
    ELSE RequiredFields[CHOOSE i \in DOMAIN RequiredFields :
            /\ RequiredFields[i] \notin t.present
            /\ \A j \in 1..(i - 1) : RequiredFields[j] \in t.present]

\* the id _validate_transaction generates for the idx-th record
GeneratedId(i) == 100 + i

\* _validate_transaction: the error it raises, or "ok"
ValidationError(t) ==
    IF FirstMissing(t) # "none" THEN "missing"
    ELSE IF t.amount.k \in {"bad", "none"} THEN "amount_type"
    ELSE IF t.amount.k # "nan" /\ t.amount.v <= 0 THEN "amount"
    ELSE IF t.currency \notin Currencies THEN "currency"
    ELSE IF ~t.location_is_dict THEN "location"
    ELSE "ok"

\* validation that replaces an id the payload already carries
AfterValidationFreshId(t, i) ==
    IF FirstMissing(t) = "none" THEN [t EXCEPT !.transaction_id = GeneratedId(i)] ELSE t

\* the payload after _validate_transaction ran (it writes the id into its argument
\* once every required field is there)
AfterValidation(t, i) ==
    IF FirstMissing(t) = "none" /\ t.transaction_id = NoId
    THEN [t EXCEPT !.transaction_id = GeneratedId(i)]
    ELSE t

\* the profile _get_customer_profile creates when the customer has no item
CreatedProfile == ProfileOf("medium", Num(DefaultSpend), Num(0), Num(0), "none")

\* a fallback that is the default profile
LenientFallback == ProfileOf("medium", Num(DefaultSpend), Num(0), Num(0), "none")

\* the profile _get_customer_profile returns when the lookup raised
FallbackProfile == ProfileOf("high", Num(FallbackSpend), Num(0), Num(0), "none")

\* _convert_from_dynamodb_format on a customers item
ReadProfile(item) ==
    [item EXCEPT !.average_monthly_spend = FromDynamo(@),
                 !.transaction_count = FromDynamo(@),
                 !.fraud_count = FromDynamo(@)]

\* _convert_from_dynamodb_format on a transactions item
ReadTxn(item) ==
    [item EXCEPT !.latitude = FromDynamo(@), !.longitude = FromDynamo(@)]

RECURSIVE MostRecentFirst(_)
MostRecentFirst(S) ==
    IF S = {} THEN <<>>
    ELSE LET m == CHOOSE x \in S : \A y \in S : y.timestamp.t <= x.timestamp.t
         IN  <<m>> \o MostRecentFirst(S \ {m})

\* the answer of transactions_table.query in _get_recent_transactions
QueryRecent(table, c, clock) ==
    LET hits == {x \in table : x.customer_id = c
                                /\ x.timestamp.t >= clock - LookbackHours * HourMinutes}
        all == MostRecentFirst(hits)
        page == IF Len(all) <= QueryLimit THEN all ELSE SubSeq(all, 1, QueryLimit)
    IN  [i \in DOMAIN page |-> ReadTxn(page[i])]

\* transactions_table.put_item: an upsert on the key (customer_id, timestamp)
PutTxn(table, item) ==
    {x \in table : ~(x.customer_id = item.customer_id /\ x.timestamp = item.timestamp)}
      \cup {item}

\* current_profile.get('transaction_count', 0) and .get('fraud_count', 0)
CountOf(p) == IF p.transaction_count.k = "none" THEN 0 ELSE p.transaction_count.v
FraudsOf(p) == IF p.fraud_count.k = "none" THEN 0 ELSE p.fraud_count.v

\* _update_customer_profile raises before its put_item: current_count + 1 is a
\* TypeError on the string a stored count is read back as, and so are the
\* arithmetic on a stored spend and fraud_count += 1
UpdateRaises(t, p, fraud) ==
    \/ p.transaction_count.k \in {"str", "bad"}
    \/ CountOf(p) > 0 /\ p.average_monthly_spend.k \in {"str", "bad"}
    \/ fraud /\ p.fraud_count.k \in {"str", "bad"}

\* the new average cut off after two decimals instead of rounded
NewAverageTruncated(t, p) ==
    LET current_count == CountOf(p)
        new_count == current_count + 1
    IN  IF current_count > 0
        THEN ((p.average_monthly_spend.v * current_count + AmountOf(t))
                \div (10 * new_count)) * 10
        ELSE (AmountOf(t) \div 10) * 10

\* round(new_avg, 2), in mills (an absent average_monthly_spend counts as 0)
NewAverage(t, p) ==
    LET current_count == CountOf(p)
        new_count == current_count + 1
    IN  IF current_count > 0
        THEN RoundDiv(p.average_monthly_spend.v * current_count + AmountOf(t),
                      10 * new_count) * 10
        ELSE RoundDiv(AmountOf(t), 10) * 10

\* updated_profile of _update_customer_profile
UpdatedProfile(t, p, fraud) ==
    [p EXCEPT !.transaction_count = Num(CountOf(p) + 1),
              !.average_monthly_spend = Num(NewAverage(t, p)),
              !.fraud_count = IF fraud THEN Num(FraudsOf(p) + 1)
                              ELSE IF p.fraud_count.k = "none" THEN Num(0)
                              ELSE p.fraud_count]

----------------------------------------------------------------------------
(* The state machine: lambda_handler and process_transaction *)

Init ==
    /\ pc = "init"
    /\ nrec \in 0..MaxRecords
    /\ idx = 0
    /\ record = NoTxn
    /\ txn = NoTxn
    /\ profile = NoItem
    /\ window = <<>>
    /\ assessment = NoAssessment
    /\ customers_table \in {[c \in Customers |-> NoItem],
                            [c \in Customers |-> IF c = "c1" THEN Existing ELSE NoItem]}
    /\ transactions_table \in {{}, Burst(VELOCITY_THRESHOLD), Burst(MaxWindow)}
    /\ now = Night + 1
    /\ processed_count = 0
    /\ error_count = 0
    /\ fraud_count = 0
    /\ result = NoResult
    /\ trace = <<>>
    /\ calls = {}
    /\ failed = {}
    /\ hist = [count0 |-> [c \in Customers |-> CountOf(customers_table[c])],
               done |-> <<>>, errors |-> <<>>, faulty |-> FALSE,
               summaries |-> 0, fraud_summaries |-> 0]

Enter(step) == trace' = Append(trace, step)

Fault(step) == /\ failed' = failed \cup {step}
               /\ hist' = [hist EXCEPT !.faulty = TRUE]

NoFault == UNCHANGED <<failed, hist>>

\* an exception leaves process_transaction at `step`
Raise(step) ==
    /\ pc' = "raised"
    /\ result' = [NoResult EXCEPT !.status = "error", !.step = step]

\* lambda_handler 478-482: the processor is constructed, outside the try
\* statement; an exception of the constructor leaves lambda_handler
Construct ==
    /\ pc = "init"
    /\ \/ pc' = "loop" /\ result' = result
       \/ /\ pc' = "uncaught"
          /\ result' = [NoResult EXCEPT !.status = "uncaught", !.step = "init"]
    /\ UNCHANGED <<nrec, idx, record, txn, profile, window, assessment, customers_table,
                   transactions_table, now, processed_count, error_count, fraud_count,
                   trace, calls, failed, hist>>

\* lambda_handler 486, 517-527: the event has no 'Records' to iterate (it is not
\* a dict, or 'Records' is not iterable); the outer except returns status 500
EventError ==
    /\ pc = "loop"
    /\ idx = 0
    /\ nrec = 0
    /\ pc' = "fatal"
    /\ result' = [NoResult EXCEPT !.status = "fatal", !.step = "event"]
    /\ UNCHANGED <<nrec, idx, record, txn, profile, window, assessment, customers_table,
                   transactions_table, now, processed_count, error_count, fraud_count,
                   trace, calls, failed, hist>>

\* the next record taken while the metrics of the one before are still to be sent
NextRecordOverlaps ==
    /\ pc \in {"loop", "metrics"}
    /\ idx < nrec
    /\ \E p \in Payloads : record' = p
    /\ idx' = idx + 1
    /\ pc' = "decode"
    /\ txn' = NoTxn
    /\ profile' = NoItem
    /\ window' = <<>>
    /\ assessment' = NoAssessment
    /\ result' = NoResult
    /\ trace' = <<>>
    /\ calls' = {}
    /\ failed' = {}
    /\ UNCHANGED <<nrec, customers_table, transactions_table, now,
                   processed_count, error_count, fraud_count, hist>>

\* lambda_handler 486: the loop takes the next record of the event
NextRecord ==
    /\ pc = "loop"
    /\ idx < nrec
    /\ \E p \in Payloads : record' = p
    /\ idx' = idx + 1
    /\ pc' = "decode"
    /\ txn' = NoTxn
    /\ profile' = NoItem
    /\ window' = <<>>
    /\ assessment' = NoAssessment
    /\ result' = NoResult
    /\ trace' = <<>>
    /\ calls' = {}
    /\ failed' = {}
    /\ UNCHANGED <<nrec, customers_table, transactions_table, now,
                   processed_count, error_count, fraud_count, hist>>

\* lambda_handler 489-494: decode the record and call process_transaction
Decode ==
    /\ pc = "decode"
    /\ IF record.decodable
       THEN pc' = "validate" /\ result' = result
       ELSE Raise("decode")
    /\ UNCHANGED <<nrec, idx, record, txn, profile, window, assessment, customers_table,
                   transactions_table, now, processed_count, error_count, fraud_count,
                   trace, calls, failed, hist>>

\* validation that lets every payload through
ValidateAccepts ==
    /\ pc = "validate"
    /\ Enter("validate")
    /\ record' = AfterValidation(record, idx)
    /\ txn' = record'
    /\ pc' = "fetch_profile" /\ result' = result
    /\ UNCHANGED <<nrec, idx, profile, window, assessment, customers_table,
                   transactions_table, now, processed_count, error_count, fraud_count,
                   calls, failed, hist>>

\* process_transaction 197, _validate_transaction
Validate ==
    /\ pc = "validate"
    /\ Enter("validate")
    /\ record' = AfterValidation(record, idx)
    /\ IF ValidationError(record) = "ok"
       THEN /\ txn' = record'
            /\ pc' = "fetch_profile" /\ result' = result
       ELSE /\ txn' = txn
            /\ Raise("validate")
    /\ UNCHANGED <<nrec, idx, profile, window, assessment, customers_table,
                   transactions_table, now, processed_count, error_count, fraud_count,
                   calls, failed, hist>>

\* process_transaction 200, _get_customer_profile
FetchProfile ==
    /\ pc = "fetch_profile"
    /\ Enter("fetch_profile")
    /\ pc' = "fetch_history"
    /\ LET c == txn.customer_id IN
       \/ \* get_item raises
          /\ calls' = calls \cup {"profile_get"}
          /\ Fault("fetch_profile")
          /\ profile' = FallbackProfile
          /\ UNCHANGED customers_table
       \/ \* the customer has an item
          /\ customers_table[c] # NoItem
          /\ calls' = calls \cup {"profile_get"}
          /\ NoFault
          /\ profile' = ReadProfile(customers_table[c])
          /\ UNCHANGED customers_table
       \/ \* no item: the default profile is created and stored
          /\ customers_table[c] = NoItem
          /\ calls' = calls \cup {"profile_get", "profile_put"}
          /\ NoFault
          /\ profile' = CreatedProfile
          /\ customers_table' = [customers_table EXCEPT ![c] = CreatedProfile]
       \/ \* no item, and the put_item of the default profile raises
          /\ customers_table[c] = NoItem
          /\ calls' = calls \cup {"profile_get", "profile_put"}
          /\ Fault("fetch_profile")
          /\ profile' = FallbackProfile
          /\ UNCHANGED customers_table
    /\ UNCHANGED <<nrec, idx, record, txn, window, assessment, transactions_table, now,
                   processed_count, error_count, fraud_count, result>>

\* a history failure that is raised instead of answered with an empty window
FetchHistoryRaises ==
    /\ pc = "fetch_history"
    /\ Enter("fetch_history")
    /\ calls' = calls \cup {"history_query"}
    /\ \/ /\ NoFault
          /\ window' = QueryRecent(transactions_table, txn.customer_id, now)
          /\ pc' = "score" /\ result' = result
       \/ /\ Fault("fetch_history")
          /\ window' = <<>>
          /\ Raise("fetch_history")
    /\ UNCHANGED <<nrec, idx, record, txn, profile, assessment, customers_table,
                   transactions_table, now, processed_count, error_count, fraud_count>>

\* a failed history query answered with the stored history instead of []
FetchHistoryKeepsWindow ==
    /\ pc = "fetch_history"
    /\ Enter("fetch_history")
    /\ pc' = "score"
    /\ calls' = calls \cup {"history_query"}
    /\ window' = QueryRecent(transactions_table, txn.customer_id, now)
    /\ \/ NoFault
       \/ Fault("fetch_history")
    /\ UNCHANGED <<nrec, idx, record, txn, profile, assessment, customers_table,
                   transactions_table, now, processed_count, error_count, fraud_count,
                   result>>

\* process_transaction 203, _get_recent_transactions
FetchHistory ==
    /\ pc = "fetch_history"
    /\ Enter("fetch_history")
    /\ pc' = "score"
    /\ calls' = calls \cup {"history_query"}
    /\ \/ /\ NoFault
          /\ window' = QueryRecent(transactions_table, txn.customer_id, now)
       \/ /\ Fault("fetch_history")
          /\ window' = <<>>
    /\ UNCHANGED <<nrec, idx, record, txn, profile, assessment, customers_table,
                   transactions_table, now, processed_count, error_count, fraud_count,
                   result>>

\* process_transaction 208-221, FraudDetector.calculate_risk_score
Score ==
    /\ pc = "score"
    /\ Enter("score")
    /\ IF ScoreRaises(txn, profile, window)
       THEN /\ Raise("score")
            /\ assessment' = assessment
       ELSE /\ assessment' = calculate_risk_score(txn, profile, window)
            /\ pc' = "persist" /\ result' = result
    /\ UNCHANGED <<nrec, idx, record, txn, profile, window, customers_table,
                   transactions_table, now, processed_count, error_count, fraud_count,
                   calls, failed, hist>>

\* a store failure that is logged instead of raised
PersistSwallows ==
    /\ pc = "persist"
    /\ Enter("persist")
    /\ calls' = calls \cup {"store_put"}
    /\ \/ /\ NoFault
          /\ transactions_table' =
                PutTxn(transactions_table,
                       TxnItem(txn.customer_id, txn.transaction_id, txn.latitude,
                               txn.longitude, txn.timestamp))
       \/ /\ Fault("persist")
          /\ UNCHANGED transactions_table
    /\ pc' = "archive"
    /\ UNCHANGED <<nrec, idx, record, txn, profile, window, assessment, customers_table,
                   now, processed_count, error_count, fraud_count, result>>

\* process_transaction 224, _store_transaction
Persist ==
    /\ pc = "persist"
    /\ Enter("persist")
    /\ calls' = calls \cup {"store_put"}
    /\ \/ /\ NoFault
          /\ transactions_table' =
                PutTxn(transactions_table,
                       TxnItem(txn.customer_id, txn.transaction_id, txn.latitude,
                               txn.longitude, txn.timestamp))
          /\ pc' = "archive" /\ result' = result
       \/ /\ Fault("persist")
          /\ UNCHANGED transactions_table
          /\ Raise("persist")
    /\ UNCHANGED <<nrec, idx, record, txn, profile, window, assessment, customers_table,
                   now, processed_count, error_count, fraud_count>>

\* an archive failure that is raised instead of logged
ArchiveRaises ==
    /\ pc = "archive"
    /\ Enter("archive")
    /\ calls' = calls \cup {"archive_put"}
    /\ \/ NoFault /\ pc' = "update_profile" /\ result' = result
       \/ Fault("archive") /\ Raise("archive")
    /\ UNCHANGED <<nrec, idx, record, txn, profile, window, assessment, customers_table,
                   transactions_table, now, processed_count, error_count, fraud_count>>

\* an archive failure after which the profile update is skipped
ArchiveSkipsUpdate ==
    /\ pc = "archive"
    /\ Enter("archive")
    /\ calls' = calls \cup {"archive_put"}
    /\ \/ NoFault /\ pc' = "update_profile"
       \/ Fault("archive") /\ pc' = "metrics"
    /\ UNCHANGED <<nrec, idx, record, txn, profile, window, assessment, customers_table,
                   transactions_table, now, processed_count, error_count, fraud_count,
                   result>>

\* process_transaction 227, _archive_to_s3
Archive ==
    /\ pc = "archive"
    /\ Enter("archive")
    /\ calls' = calls \cup {"archive_put"}
    /\ \/ NoFault
       \/ Fault("archive")
    /\ pc' = "update_profile"
    /\ UNCHANGED <<nrec, idx, record, txn, profile, window, assessment, customers_table,
                   transactions_table, now, processed_count, error_count, fraud_count,
                   result>>

\* process_transaction 230, _update_customer_profile
UpdateProfile ==
    /\ pc = "update_profile"
    /\ Enter("update_profile")
    /\ pc' = "metrics"
    /\ IF UpdateRaises(txn, profile, assessment.is_fraud)
       THEN /\ failed' = failed \cup {"update_profile"}
            /\ UNCHANGED <<customers_table, calls, hist>>
       ELSE /\ calls' = calls \cup {"profile_put"}
            /\ \/ /\ NoFault
                  /\ customers_table' =
                        [customers_table EXCEPT ![txn.customer_id] =
                            UpdatedProfile(txn, profile, assessment.is_fraud)]
               \/ /\ Fault("update_profile")
                  /\ UNCHANGED customers_table
    /\ UNCHANGED <<nrec, idx, record, txn, profile, window, assessment,
                   transactions_table, now, processed_count, error_count, fraud_count,
                   result>>

\* the alert raised for every record
MetricsAlwaysAlerts ==
    /\ pc = "metrics"
    /\ Enter("metrics")
    /\ calls' = calls \cup {"metrics_put"}
    /\ \/ NoFault
       \/ Fault("metrics")
    /\ pc' = "alert"
    /\ UNCHANGED <<nrec, idx, record, txn, profile, window, assessment, customers_table,
                   transactions_table, now, processed_count, error_count, fraud_count,
                   result>>

\* the alert raised for no record
MetricsNeverAlerts ==
    /\ pc = "metrics"
    /\ Enter("metrics")
    /\ calls' = calls \cup {"metrics_put"}
    /\ \/ NoFault
       \/ Fault("metrics")
    /\ pc' = "complete"
    /\ UNCHANGED <<nrec, idx, record, txn, profile, window, assessment, customers_table,
                   transactions_table, now, processed_count, error_count, fraud_count,
                   result>>

\* process_transaction 233, _send_metrics
Metrics ==
    /\ pc = "metrics"
    /\ Enter("metrics")
    /\ calls' = calls \cup {"metrics_put"}
    /\ \/ NoFault
       \/ Fault("metrics")
    /\ pc' = IF assessment.is_fraud THEN "alert" ELSE "complete"
    /\ UNCHANGED <<nrec, idx, record, txn, profile, window, assessment, customers_table,
                   transactions_table, now, processed_count, error_count, fraud_count,
                   result>>

\* process_transaction 236-237, _handle_fraud_alert
Alert ==
    /\ pc = "alert"
    /\ Enter("alert")
    /\ calls' = calls \cup {"alert"}
    /\ \/ NoFault
       \/ Fault("alert")
    /\ pc' = "complete"
    /\ UNCHANGED <<nrec, idx, record, txn, profile, window, assessment, customers_table,
                   transactions_table, now, processed_count, error_count, fraud_count,
                   result>>

\* process_transaction 239-246: the success summary
Complete ==
    /\ pc = "complete"
    /\ Enter("complete")
    /\ result' = [status |-> "success", step |-> "none",
                  transaction_id |-> txn.transaction_id,
                  risk_score |-> assessment.risk_score,
                  is_fraud |-> assessment.is_fraud]
    /\ pc' = "returned"
    /\ hist' = [hist EXCEPT !.summaries = @ + 1,
                            !.fraud_summaries = IF assessment.is_fraud THEN @ + 1 ELSE @]
    /\ UNCHANGED <<nrec, idx, record, txn, profile, window, assessment, customers_table,
                   transactions_table, now, processed_count, error_count, fraud_count,
                   calls, failed>>

\* lambda_handler 496-499
CountProcessed ==
    /\ pc = "returned"
    /\ processed_count' = processed_count + 1
    /\ fraud_count' = IF result.is_fraud THEN fraud_count + 1 ELSE fraud_count
    /\ hist' = [hist EXCEPT !.done = Append(@, result.transaction_id)]
    /\ pc' = "loop"
    /\ UNCHANGED <<nrec, idx, record, txn, profile, window, assessment, customers_table,
                   transactions_table, now, error_count, result, trace, calls, failed>>

\* the handler leaves the loop on a record's failure
CountErrorBreaks ==
    /\ pc = "raised"
    /\ error_count' = error_count + 1
    /\ hist' = [hist EXCEPT !.errors = Append(@, result.step)]
    /\ pc' = "done"
    /\ UNCHANGED <<nrec, idx, record, txn, profile, window, assessment, customers_table,
                   transactions_table, now, processed_count, fraud_count, result, trace,
                   calls, failed>>

\* a failed record that counts as a fraud
CountErrorCountsFraud ==
    /\ pc = "raised"
    /\ error_count' = error_count + 1
    /\ fraud_count' = IF assessment.is_fraud THEN fraud_count + 1 ELSE fraud_count
    /\ hist' = [hist EXCEPT !.errors = Append(@, result.step)]
    /\ pc' = "loop"
    /\ UNCHANGED <<nrec, idx, record, txn, profile, window, assessment, customers_table,
                   transactions_table, now, processed_count, result, trace,
                   calls, failed>>

\* lambda_handler 501-504
CountError ==
    /\ pc = "raised"
    /\ error_count' = error_count + 1
    /\ hist' = [hist EXCEPT !.errors = Append(@, result.step)]
    /\ pc' = "loop"
    /\ UNCHANGED <<nrec, idx, record, txn, profile, window, assessment, customers_table,
                   transactions_table, now, processed_count, fraud_count, result, trace,
                   calls, failed>>

\* lambda_handler 507-515: the event is exhausted, the summary is returned
Finish ==
    /\ pc = "loop"
    /\ idx = nrec
    /\ pc' = "done"
    /\ UNCHANGED <<nrec, idx, record, txn, profile, window, assessment, customers_table,
                   transactions_table, now, processed_count, error_count, fraud_count,
                   result, trace, calls, failed, hist>>

Next ==
    \/ Construct \/ EventError
    \/ NextRecord \/ Decode \/ Validate \/ FetchProfile \/ FetchHistory \/ Score
    \/ Persist \/ Archive \/ UpdateProfile \/ Metrics \/ Alert \/ Complete
    \/ CountProcessed \/ CountError \/ Finish

Spec == Init /\ [][Next]_vars

----------------------------------------------------------------------------
(* calculate_risk_score on its own: the inputs are drawn from bounded sets *)

ScoreAmounts == {4, 50000, 160260, 15000000}

ScoreTimes == {Ts(Afternoon), Ts(Night), Ts(Night + 3 * HourMinutes),
               Ts(Night + 20 * HourMinutes), Ts(Night - 2 * HourMinutes), BadTs}

ScoreTxns ==
    {[Payload("c1", 1, Num(a), country, lat, ts) EXCEPT !.longitude = lon] :
        a \in ScoreAmounts, country \in {"US", "CA"},
        lat \in {Num(40), Num(52)}, lon \in {Num(0 - 74), Num(0)}, ts \in ScoreTimes}

ScoreProfiles ==
    {ProfileOf("low", spend, Num(0), Num(0), country) :
        spend \in {None, Num(0), Num(0 - 30000), Num(FallbackSpend), Num(DefaultSpend),
                   Str(3000000), Str(200000000)},
        country \in {"US", "none"}}

\* n entries in the minutes before Night, then `old` entries of the day before
WindowOf(n, old, lat) ==
    [i \in 1..(n + old) |->
        ReadTxn(TxnItem("c1", 10 + i, lat, Num(0 - 74),
                        IF i <= n THEN Ts(Night - i) ELSE Ts(Afternoon - i)))]

ScoreWindows ==
    {WindowOf(n, old, lat) : n \in 0..(MaxWindow + 1), old \in {0, 1}, lat \in {Num(40), None}}

ScoreInit ==
    /\ pc = "score"
    /\ txn \in ScoreTxns
    /\ profile \in ScoreProfiles
    /\ window \in ScoreWindows
    /\ nrec = 1
    /\ idx = 1
    /\ record = txn
    /\ assessment = NoAssessment
    /\ customers_table = [c \in Customers |-> NoItem]
    /\ transactions_table = {}
    /\ now = Night + 1
    /\ processed_count = 0
    /\ error_count = 0
    /\ fraud_count = 0
    /\ result = NoResult
    /\ trace = <<"validate", "fetch_profile", "fetch_history">>
    /\ calls = {}
    /\ failed = {}
    /\ hist = [count0 |-> [c \in Customers |-> 0], done |-> <<>>, errors |-> <<>>,
               faulty |-> FALSE, first |-> <<>>]

\* Between two calls of calculate_risk_score with the same three arguments:
\* the first assessment is kept aside, the wall clock advances and the
\* collaborators' state changes.
Elapse ==
    /\ pc = "persist"
    /\ hist.first = <<>>
    /\ hist' = [hist EXCEPT !.first = <<assessment>>]
    /\ pc' = "score"
    /\ assessment' = NoAssessment
    /\ trace' = <<"validate", "fetch_profile", "fetch_history">>
    /\ \/ /\ now' = now + 1
          /\ UNCHANGED <<customers_table, transactions_table>>
       \/ /\ now' = now + 2 * DayMinutes
          /\ customers_table' = [customers_table EXCEPT !["c1"] = Existing]
          /\ transactions_table' = Burst(VELOCITY_THRESHOLD)
    /\ processed_count' = processed_count + 1
    /\ UNCHANGED <<nrec, idx, record, txn, profile, window, error_count, fraud_count,
                   result, calls, failed>>

ScoreNext == Score \/ Elapse

SpecScore == ScoreInit /\ [][ScoreNext]_vars

\* calculate_risk_score has returned
Scored == pc = "persist"

(* C6, as claimed: is_fraud is true exactly when the reported risk_score is
   strictly greater than the fraud threshold. *)
C6_Original ==
    Scored => (assessment.is_fraud <=> assessment.risk_score * 10 > FRAUD_THRESHOLD)

(* C6, amended: is_fraud is true exactly when the unrounded composite (the
   clamped weighted sum of the reported risk_factors) is strictly greater than
   the fraud threshold; the reported risk_score is that composite rounded to
   three decimals, so a risk_score above the default threshold 0.8 implies
   is_fraud and is_fraud implies a risk_score of at least 0.8. *)
C6_Amended ==
    Scored =>
        /\ assessment.is_fraud <=>
              Clamp(WeightedSum(assessment.risk_factors)) > FRAUD_THRESHOLD
        /\ assessment.risk_score * 10 > FRAUD_THRESHOLD => assessment.is_fraud
        /\ assessment.is_fraud => assessment.risk_score * 10 >= FRAUD_THRESHOLD

\* a fraud whose reported risk_score equals the threshold
C6_Witness ==
    Scored /\ assessment.is_fraud /\ assessment.risk_score * 10 = FRAUD_THRESHOLD

InUnit(x) == 0 <= x /\ x <= Scale

(* C10: for a transaction with amount > 0 and a profile with a positive
   average_monthly_spend, each of the four signals and the composite risk
   score lie in [0,1], whatever the window. *)
C10_SignalsBounded ==
    (Scored /\ AmountOf(txn) > 0 /\ SpendOf(profile) > 0) =>
        /\ \A s \in DOMAIN assessment.risk_factors : InUnit(assessment.risk_factors[s])
        /\ InUnit(assessment.risk_score)
        /\ WeightedSum(assessment.risk_factors) \in 0..(Scale * 10)

\* a scored transaction whose amount signal is capped at 1.0 and whose
\* velocity signal is capped at 1.0
C10_Witness ==
    /\ Scored /\ AmountOf(txn) > 0 /\ SpendOf(profile) > 0
    /\ assessment.risk_factors.amount = Scale
    /\ assessment.risk_factors.velocity = Scale
    /\ RecentCount(txn, window) > VELOCITY_THRESHOLD * 2

----------------------------------------------------------------------------
(* Two invocations of lambda_handler that run concurrently on the same tables.
   The variables pc .. failed are the locals of the invocation that is
   running; hist.parked holds the locals of the other one and Switch swaps
   them, so that the steps of the two invocations interleave in every order.
   Invocation 1 receives the records of customer c1, invocation 2 those of
   c2 (the stream is partitioned by customer), and no collaborator fails. *)

Owner(i) == IF i = 1 THEN "c1" ELSE "c2"

\* the locals of an invocation that has not started, for an event of n records
InitLocals(n) ==
    [pc |-> "init", nrec |-> n, idx |-> 0, record |-> NoTxn, txn |-> NoTxn,
     profile |-> NoItem, window |-> <<>>, assessment |-> NoAssessment,
     processed_count |-> 0, error_count |-> 0, fraud_count |-> 0,
     result |-> NoResult, trace |-> <<>>, calls |-> {}, failed |-> {}]

ConcInit ==
    /\ pc = "init"
    /\ nrec \in 1..MaxRecords
    /\ idx = 0
    /\ record = NoTxn
    /\ txn = NoTxn
    /\ profile = NoItem
    /\ window = <<>>
    /\ assessment = NoAssessment
    /\ customers_table \in {[c \in Customers |-> NoItem],
                            [c \in Customers |-> IF c = "c1" THEN Existing ELSE NoItem]}
    /\ transactions_table \in {{}, Burst(MaxWindow)}
    /\ now = Night + 1
    /\ processed_count = 0
    /\ error_count = 0
    /\ fraud_count = 0
    /\ result = NoResult
    /\ trace = <<>>
    /\ calls = {}
    /\ failed = {}
    /\ \E n \in 1..MaxRecords :
          hist = [count0 |-> [c \in Customers |-> CountOf(customers_table[c])],
                  done |-> <<>>, errors |-> <<>>, faulty |-> FALSE,
                  summaries |-> 0, fraud_summaries |-> 0,
                  running |-> 1, parked |-> InitLocals(n)]

\* the other invocation gets the processor
Switch ==
    /\ hist' = [hist EXCEPT
                  !.running = 3 - @,
                  !.parked = [pc |-> pc, nrec |-> nrec, idx |-> idx, record |-> record,
                              txn |-> txn, profile |-> profile, window |-> window,
                              assessment |-> assessment,
                              processed_count |-> processed_count,
                              error_count |-> error_count, fraud_count |-> fraud_count,
                              result |-> result, trace |-> trace, calls |-> calls,
                              failed |-> failed]]
    /\ pc' = hist.parked.pc
    /\ nrec' = hist.parked.nrec
    /\ idx' = hist.parked.idx
    /\ record' = hist.parked.record
    /\ txn' = hist.parked.txn
    /\ profile' = hist.parked.profile
    /\ window' = hist.parked.window
    /\ assessment' = hist.parked.assessment
    /\ processed_count' = hist.parked.processed_count
    /\ error_count' = hist.parked.error_count
    /\ fraud_count' = hist.parked.fraud_count
    /\ result' = hist.parked.result
    /\ trace' = hist.parked.trace
    /\ calls' = hist.parked.calls
    /\ failed' = hist.parked.failed
    /\ UNCHANGED <<customers_table, transactions_table, now>>

\* lambda_handler 486 in the running invocation: the next record of its partition
TakeOwnRecord == NextRecord /\ record'.customer_id = Owner(hist.running)

ConcNext ==
    \/ Switch
    \/ Construct
    \/ TakeOwnRecord
    \/ Decode
    \/ Validate
    \/ FetchProfile /\ ~hist'.faulty
    \/ FetchHistory /\ ~hist'.faulty
    \/ Score
    \/ Persist /\ ~hist'.faulty
    \/ Archive /\ ~hist'.faulty
    \/ UpdateProfile /\ ~hist'.faulty
    \/ Metrics /\ ~hist'.faulty
    \/ Alert /\ ~hist'.faulty
    \/ Complete
    \/ CountProcessed
    \/ CountError
    \/ Finish

SpecConcurrent == ConcInit /\ [][ConcNext]_vars

\* records processed by invocation i
ProcessedBy(i) == IF hist.running = i THEN processed_count ELSE hist.parked.processed_count

(* C30: when two invocations run concurrently, each on the records of its own
   customer, no collaborator fails and no transaction id is repeated, then at
   the end of both each customer's stored transaction_count equals its
   initial value plus the number of that customer's processed records. *)
C30_NoLostUpdate ==
    (/\ pc = "done" /\ hist.parked.pc = "done"
     /\ ~hist.faulty
     /\ \A i, j \in DOMAIN hist.done : i # j => hist.done[i] # hist.done[j]) =>
        \A i \in {1, 2} :
            CountOf(customers_table[Owner(i)]) = hist.count0[Owner(i)] + ProcessedBy(i)

----------------------------------------------------------------------------
(* _validate_transaction on its own: the candidates are drawn from bounded sets *)

MaxMissing == 2

CandidateAmounts == {Num(50000), Num(0), Num(0 - 1000), Str(50000), Bad, None, NaN}

Candidates ==
    {[Ordinary EXCEPT !.present = AllFields \ gone, !.amount = a, !.currency = cur,
                      !.location_is_dict = dict, !.transaction_id = id] :
        gone \in {g \in SUBSET AllFields : Cardinality(g) <= MaxMissing},
        a \in CandidateAmounts, cur \in {"USD", "CAD", "JPY"},
        dict \in BOOLEAN, id \in {NoId, Ordinary.transaction_id}}

ValidateInit ==
    /\ pc = "validate"
    /\ record \in Candidates
    /\ nrec = 1
    /\ idx = 1
    /\ txn = NoTxn
    /\ profile = NoItem
    /\ window = <<>>
    /\ assessment = NoAssessment
    /\ customers_table = [c \in Customers |-> NoItem]
    /\ transactions_table = {}
    /\ now = Night + 1
    /\ processed_count = 0
    /\ error_count = 0
    /\ fraud_count = 0
    /\ result = NoResult
    /\ trace = <<>>
    /\ calls = {}
    /\ failed = {}
    /\ hist = [count0 |-> [c \in Customers |-> 0], done |-> <<>>, errors |-> <<>>,
               faulty |-> FALSE, candidate |-> record]

\* _validate_transaction is called again on what it returned; txn keeps the
\* first result as it was, record is what the second call returns
Revalidate ==
    /\ pc = "fetch_profile"
    /\ Enter("validate")
    /\ record' = AfterValidation(txn, idx + 1)
    /\ IF ValidationError(txn) = "ok"
       THEN pc' = "revalidated" /\ result' = result
       ELSE Raise("validate")
    /\ UNCHANGED <<nrec, idx, txn, profile, window, assessment, customers_table,
                   transactions_table, now, processed_count, error_count, fraud_count,
                   calls, failed, hist>>

ValidateNext == Validate \/ Revalidate

SpecValidate == ValidateInit /\ [][ValidateNext]_vars

\* the first call of _validate_transaction has returned or raised
Validated == trace = <<"validate">>

\* float(amount) > 0
Positive(x) == x.k \in {"num", "str"} /\ x.v > 0

\* the first constraint a candidate violates, in the order: required fields,
\* amount, currency, location
FirstViolated(t) ==
    IF \E f \in AllFields : f \notin t.present THEN "missing"
    ELSE IF ~Positive(t.amount) THEN "amount"
    ELSE IF t.currency \notin Currencies THEN "currency"
    ELSE IF ~t.location_is_dict THEN "location"
    ELSE "ok"

(* C14: the validator accepts a candidate exactly when all seven required
   fields are present, amount > 0, the currency is one of USD/EUR/GBP/CAD and
   the location is a structured object; otherwise it fails at the first
   violated constraint in that order. *)
C14_AcceptsExactly ==
    Validated =>
        /\ pc = "fetch_profile" <=> FirstViolated(record) = "ok"
        /\ pc = "raised" =>
              /\ result.step = "validate"
              /\ FirstViolated(record) =
                    (IF ValidationError(record) = "amount_type" THEN "amount"
                     ELSE ValidationError(record))

(* C29: validation has no side effect on its input: when it rejects a
   candidate, the candidate passed in is left unchanged in every field, the
   absence of a transaction identifier included. *)
C29_RejectionLeavesInput == (Validated /\ pc = "raised") => record = hist.candidate

(* C15: validating the result of a successful validation succeeds again and
   returns a transaction equal to the first result in every field, the
   transaction identifier included. *)
C15_Idempotent ==
    /\ (Len(trace) = 2 /\ trace[2] = "validate") => pc = "revalidated"
    /\ pc = "revalidated" => record = txn /\ result.status # "error"

\* the second validation of a transaction whose id the first one generated
C15_Witness ==
    /\ pc = "revalidated"
    /\ txn.transaction_id = GeneratedId(1)
    /\ record.transaction_id = GeneratedId(1)

----------------------------------------------------------------------------
(* _update_customer_profile on its own: the arguments are drawn from bounded sets *)

UpdateProfiles ==
    {ProfileOf("low", spend, count, frauds, "US") :
        spend \in {None, Num(DefaultSpend), Num(333330), Str(DefaultSpend)},
        count \in {None, Num(0), Num(1), Num(VELOCITY_THRESHOLD), Str(VELOCITY_THRESHOLD)},
        frauds \in {None, Num(0), Num(2), Str(2)}}

UpdateInit ==
    /\ pc = "update_profile"
    /\ txn \in {Ordinary, Abroad, [Tiny EXCEPT !.transaction_id = GeneratedId(1)]}
    /\ profile \in UpdateProfiles
    /\ \E f \in BOOLEAN : assessment = [NoAssessment EXCEPT !.is_fraud = f]
    /\ nrec = 1
    /\ idx = 1
    /\ record = txn
    /\ window = <<>>
    /\ customers_table = [c \in Customers |-> NoItem]
    /\ transactions_table = {}
    /\ now = Night + 1
    /\ processed_count = 0
    /\ error_count = 0
    /\ fraud_count = 0
    /\ result = NoResult
    /\ trace = <<"validate", "fetch_profile", "fetch_history", "score", "persist", "archive">>
    /\ calls = {}
    /\ failed = {}
    /\ hist = [count0 |-> [c \in Customers |-> 0], done |-> <<>>, errors |-> <<>>,
               faulty |-> FALSE]

UpdateNext == UpdateProfile

SpecUpdate == UpdateInit /\ [][UpdateNext]_vars

\* _update_customer_profile has written the profile
Updated == pc = "metrics" /\ "update_profile" \notin failed

\* old_count, and old_avg * old_count + amount (mills), of the profile passed in
OldCount == IF profile.transaction_count.k = "none" THEN 0 ELSE profile.transaction_count.v
NewTotal ==
    (IF profile.average_monthly_spend.k = "none" THEN 0
     ELSE profile.average_monthly_spend.v * OldCount) + txn.amount.v

(* C25, as claimed: each successful Update profile step writes
   transaction_count = old_count + 1 and average spend
   = (old_avg * old_count + amount) / (old_count + 1). *)
C25_Original ==
    Updated =>
        LET stored == customers_table[txn.customer_id]
        IN  /\ stored.transaction_count = Num(OldCount + 1)
            /\ stored.average_monthly_spend.k = "num"
            /\ stored.average_monthly_spend.v * (OldCount + 1) = NewTotal

(* C25, amended: each successful Update profile step writes
   transaction_count = old_count + 1 and average spend
   = (old_avg * old_count + amount) / (old_count + 1) rounded to two decimals,
   the first transaction (old_count = 0) included. *)
C25_Amended ==
    Updated =>
        LET stored == customers_table[txn.customer_id]
        IN  /\ stored.transaction_count = Num(OldCount + 1)
            /\ stored.average_monthly_spend =
                  Num(RoundDiv(NewTotal, 10 * (OldCount + 1)) * 10)

\* an update whose mean has more than two decimals, after five transactions
C25_Witness ==
    /\ Updated /\ OldCount = 5
    /\ customers_table[txn.customer_id].average_monthly_spend.v * (OldCount + 1) # NewTotal

----------------------------------------------------------------------------
\* calculate_risk_score has returned for the second time
Rescored == Scored /\ hist.first # <<>>

(* C11: the assessment is a function of (transaction, profile, window): a
   second call of calculate_risk_score with the same three arguments returns
   the same risk_score, risk_factors, is_fraud and fraud_reasons as the first,
   whatever the wall clock shows, whatever the collaborators hold and although
   a call went before. *)
C11_Deterministic == Rescored => assessment = hist.first[1]

\* a second call a day later, with other tables, on a window that raises the
\* velocity signal
C11_Witness ==
    /\ Rescored
    /\ now > Night + DayMinutes
    /\ transactions_table # {}
    /\ assessment.risk_factors.velocity > 0

\* the window holds exactly five transactions within the hour before the
\* arriving one
FivePrior == Scored /\ RecentCount(txn, window) = VELOCITY_THRESHOLD

(* C12, as claimed: with the default velocity threshold 5 and exactly 5 prior
   transactions of the window within the last hour, the velocity signal of a
   6th transaction is 0.6. *)
C12_Original == FivePrior => assessment.risk_factors.velocity = (6 * Scale) \div 10

(* C12, amended: with the default velocity threshold 5 and exactly 5 prior
   transactions of the window within the last hour, the velocity signal of a
   6th transaction is min(1.0, 5/10) = 0.5: the arriving transaction is not
   counted. *)
C12_Amended == FivePrior => assessment.risk_factors.velocity = (5 * Scale) \div 10

\* five recent entries and one of the day before in the window
C12_Witness == FivePrior /\ Len(window) = VELOCITY_THRESHOLD + 1

(* C13: for a customer whose home country is "US" and a transaction whose
   country is not "US", the location signal is at least 0.6, whatever the
   window contains. *)
C13_InternationalRisk ==
    (Scored /\ profile.country = "US" /\ txn.country # "US") =>
        assessment.risk_factors.location >= InternationalRisk

\* a US customer abroad, more than 500 miles from the window's locations
C13_Witness ==
    /\ Scored /\ profile.country = "US" /\ txn.country = "CA"
    /\ Far(txn, window) # {}
    /\ assessment.risk_factors.location = InternationalRisk

\* the hour of day of the transaction's timestamp
HourOfDay == (txn.timestamp.t \div 60) % 24

(* C22: the time signal depends only on the transaction's hour of day: it is
   0.4 for the hours 2 to 6, 0.2 for the hours 0, 1 and 23, and 0 for the
   hours 7 to 22. *)
C22_TimeSignal ==
    Scored =>
        assessment.risk_factors.time =
            (IF HourOfDay \in 2..6 THEN (4 * Scale) \div 10
             ELSE IF HourOfDay \in {0, 1, 23} THEN (2 * Scale) \div 10
             ELSE 0)

\* a transaction at hour 23, one at hour 6
C22_Witness == Scored /\ HourOfDay = 6 /\ assessment.risk_factors.time = (4 * Scale) \div 10

(* C23: with daily_avg = average_monthly_spend / 30 and multiplier M = 3, the
   amount signal is min(1.0, amount / (2 * daily_avg * M)) when
   amount > daily_avg * M; it is 0.8 when amount <= daily_avg * M and
   amount > 10000; it is 0 otherwise. *)
C23_AmountSignal ==
    Scored =>
        LET amount == txn.amount.v                \* mills
            monthly == SpendOf(profile)           \* daily_avg * 30, mills
            quotient == IF monthly > 0
                        THEN Ratio(amount * 30, 2 * monthly * 3)
                        ELSE 0 - Ratio(amount * 30, 0 - 2 * monthly * 3)
        IN  assessment.risk_factors.amount =
                (IF amount * 30 > monthly * 3 THEN Min(Scale, quotient)
                 ELSE IF amount > 10000 * Pow10(3) THEN (8 * Scale) \div 10
                 ELSE 0)

\* amount 15000 with daily_avg 100 gives 1.0
C23_Witness ==
    /\ Scored /\ txn.amount.v = 15000 * Pow10(3) /\ SpendOf(profile) = 30 * 100 * Pow10(3)
    /\ assessment.risk_factors.amount = Scale

\* the window entries stamped within the hour before the transaction's timestamp
WithinHourBefore ==
    {i \in DOMAIN window : /\ window[i].timestamp.t > txn.timestamp.t - 60
                           /\ window[i].timestamp.t <= txn.timestamp.t}

(* C24: the velocity signal is determined by the number c of window entries
   whose timestamp lies within the hour before the transaction's own
   timestamp: 0 when c < T, min(1.0, c / (2T)) when c >= T. *)
C24_VelocitySignal ==
    Scored =>
        LET c == Cardinality(WithinHourBefore)
        IN  assessment.risk_factors.velocity =
                (IF c < 5 THEN 0 ELSE Min(Scale, (c * Scale) \div 10))

\* the weighted sum of the four signals' maxima (0.9), in ten-thousandths
MaximaSum ==
    Scale * WeightVelocity + Scale * WeightAmount
      + LocationCap * WeightLocation + NightRisk * WeightTime

(* C31, as claimed: the weighted sum of the four signals is always between 0 and 0.9, so
   the clamp to [0,1] never changes it and no risk_score is above 0.9. *)
C31_ClampIsIdle ==
    Scored =>
        LET total == WeightedSum(assessment.risk_factors)
        IN  /\ 0 <= total /\ total <= MaximaSum
            /\ Clamp(total) = total
            /\ assessment.risk_score * 10 <= MaximaSum

(* C31, amended: the weighted sum of the four signals is never above 0.9, so
   the upper end of the clamp never acts and no risk_score is above 0.9; it is
   at least 0, and the clamp leaves it as it is, whenever the profile's
   average_monthly_spend is not negative; with a negative average the amount
   signal is negative, and when the sum falls below 0 the clamp raises it to
   a risk_score of 0. *)
C31_Amended ==
    Scored =>
        LET total == WeightedSum(assessment.risk_factors)
        IN  /\ total <= MaximaSum
            /\ assessment.risk_score * 10 <= MaximaSum
            /\ SpendOf(profile) >= 0 => 0 <= total /\ Clamp(total) = total
            /\ Clamp(total) # total =>
                  /\ total < 0
                  /\ assessment.risk_factors.amount < 0
                  /\ assessment.risk_score = 0

\* an assessment whose four signals are all at their maxima: the sum is 0.9
C31_Witness ==
    /\ Scored
    /\ assessment.risk_factors =
          [velocity |-> Scale, amount |-> Scale, location |-> LocationCap, time |-> NightRisk]
    /\ WeightedSum(assessment.risk_factors) = MaximaSum
    /\ assessment.risk_score * 10 = MaximaSum

----------------------------------------------------------------------------
(* Claims about the pipeline *)

Entered(step) == \E i \in DOMAIN trace : trace[i] = step

Sinks == {"archive", "update_profile", "metrics", "alert"}

\* the Persist step of the current record succeeded
Persisted == Entered("persist") /\ "persist" \notin failed

Last(q) == q[Len(q)]

(* C1: a record's fatal failure (decode, validation, scoring or store error)
   never stops the loop: every later record is still taken, and at completion
   processed + errors equals the number of records of the batch. *)
C1_LoopContinues ==
    /\ pc = "done" => idx = nrec /\ processed_count + error_count = nrec
    /\ pc = "loop" => processed_count + error_count = idx
    /\ pc \notin {"init", "uncaught", "fatal", "loop", "done"} =>
          processed_count + error_count = idx - 1

\* a record is processed after an earlier record of the batch failed
C1_Witness == pc = "returned" /\ error_count > 0

(* C2: when the Persist step fails for a record, none of Archive, Update
   profile, Emit metrics and Raise fraud alert is performed for it, the record
   counts as exactly one error and not as processed, and the loop goes on with
   the following record. *)
C2_PersistFailureIsolated ==
    /\ []("persist" \in failed =>
            /\ \A s \in Sinks : ~Entered(s)
            /\ calls \cap {"archive_put", "metrics_put", "alert"} = {}
            /\ result.status = "error" /\ result.step = "persist"
            /\ pc \in {"raised", "loop", "decode", "done"})
    /\ [][(pc = "raised" /\ "persist" \in failed) =>
            /\ error_count' = error_count + 1
            /\ processed_count' = processed_count
            /\ fraud_count' = fraud_count
            /\ UNCHANGED <<customers_table, transactions_table>>
            /\ pc' = "loop"]_vars
    /\ [][(pc = "loop" /\ idx < nrec) => (pc' = "decode" /\ idx' = idx + 1)]_vars

\* a record is processed after the store failed for the record before it
C2_Witness ==
    /\ pc = "returned"
    /\ hist.errors # <<>>
    /\ Last(hist.errors) = "persist"
    /\ processed_count + error_count = idx - 1

(* C3: once the Persist step succeeded, no combination of failures of Archive,
   Update profile, Emit metrics and Raise fraud alert raises out of
   process_transaction, and the summary returned is the one of the scored
   transaction, whichever of them failed. *)
C3_SinkFailuresHarmless ==
    /\ Persisted => result.status # "error" /\ pc # "raised"
    /\ pc = "returned" =>
          result = [status |-> "success", step |-> "none",
                    transaction_id |-> txn.transaction_id,
                    risk_score |-> assessment.risk_score,
                    is_fraud |-> assessment.is_fraud]

\* a success summary although all four best-effort steps failed
C3_Witness == pc = "returned" /\ Sinks \subseteq failed /\ result.status = "success"

\* the steps are entered in increasing order, none twice
Ordered == \A i, j \in DOMAIN trace : i < j => StepNo(trace[i]) < StepNo(trace[j])

(* C4, as claimed: the steps are entered in the fixed order, none twice, none
   backward, and no step is entered before every earlier step has been
   attempted. *)
C4_Original ==
    /\ Ordered
    /\ \A i \in DOMAIN trace : \A n \in 1..(StepNo(trace[i]) - 1) : Entered(Steps[n])

(* C4, amended: the steps are entered in the fixed order, none twice, none
   backward, and no step is entered before every earlier step has been
   attempted, except that Raise fraud alert is entered only when is_fraud is
   true and is skipped otherwise. *)
C4_Amended ==
    /\ Ordered
    /\ \A i \in DOMAIN trace : \A n \in 1..(StepNo(trace[i]) - 1) :
          Entered(Steps[n]) \/ (Steps[n] = "alert" /\ ~assessment.is_fraud)
    /\ Entered("alert") => assessment.is_fraud

\* a record that completes without the alert step, and one that takes all ten
C4_Witness == pc = "returned" /\ ~Entered("alert") /\ Len(trace) = Len(Steps) - 1

(* C5: when validation of a record fails, no collaborator is touched for it
   (no profile read or write, no history query, no store write, no archive, no
   metric, no alert), and the batch counts it as exactly one error. *)
C5_ValidationAbortsEarly ==
    /\ []((trace # <<>> /\ ValidationError(record) # "ok") =>
            /\ calls = {}
            /\ trace = <<"validate">>
            /\ result.status = "error" /\ result.step = "validate")
    /\ [][(pc = "raised" /\ ValidationError(record) # "ok") =>
            /\ error_count' = error_count + 1
            /\ processed_count' = processed_count
            /\ UNCHANGED <<customers_table, transactions_table>>]_vars

\* an invalid record has been counted as an error
C5_Witness ==
    /\ pc = "loop" /\ result.step = "validate" /\ calls = {}
    /\ hist.errors # <<>> /\ Last(hist.errors) = "validate"

(* C7: when the same transaction id is delivered and processed twice (and no
   collaborator fails), the stored transaction_count of the customer grows by
   one. *)
C7_DuplicateCountedOnce ==
    (pc = "done" /\ ~hist.faulty /\ hist.done = <<Ordinary.transaction_id,
                                                  Ordinary.transaction_id>>) =>
        CountOf(customers_table[Ordinary.customer_id])
            = hist.count0[Ordinary.customer_id] + 1

(* C8: the transaction_count stored for a customer never decreases. *)
C8_CountNeverDecreases ==
    [][\A c \in Customers :
          CountOf(customers_table'[c]) >= CountOf(customers_table[c])]_vars

(* C9: the Score step never fails: a record that passed validation (here with
   a well-formed timestamp) can only fail fatally at Persist. *)
C9_ScoreNeverFails ==
    (result.status = "error" /\ Entered("fetch_profile") /\ txn.timestamp.ok) =>
        result.step = "persist"

(* C16: a failure of the profile lookup is never fatal: the pipeline goes on
   with the fallback profile (risk tier high, average_monthly_spend 500,
   transaction_count 0) to Score and Persist, the only steps where the record
   can still fail. *)
C16_ProfileFailureNotFatal ==
    "fetch_profile" \in failed =>
        /\ profile.risk_profile = "high"
        /\ profile.average_monthly_spend = Num(500 * Pow10(3))
        /\ profile.transaction_count = Num(0)
        /\ pc # "fetch_profile"
        /\ result.status = "error" => result.step \in {"score", "persist"}

\* a success summary for a record whose profile lookup failed
C16_Witness ==
    /\ pc = "returned" /\ result.status = "success"
    /\ "fetch_profile" \in failed /\ Persisted

(* C17: a failure of the recent-history query is never fatal: the pipeline
   goes on with an empty window, for which the velocity signal is 0 and the
   location signal has no distance part (it is 0, or 0.6 for a US customer
   abroad). *)
C17_HistoryFailureNotFatal ==
    "fetch_history" \in failed =>
        /\ window = <<>>
        /\ pc # "fetch_history"
        /\ result.status = "error" => result.step \in {"score", "persist"}
        /\ assessment.risk_factors.velocity = 0
        /\ assessment.risk_factors.location =
              (IF profile.country = "US" /\ txn.country # "US" /\ Entered("score")
                  /\ result.step # "score"
               THEN InternationalRisk ELSE 0)

\* a success summary for a record whose history query failed although the
\* store holds a burst of the customer's transactions
C17_Witness ==
    /\ pc = "returned" /\ result.status = "success"
    /\ "fetch_history" \in failed
    /\ Len(QueryRecent(transactions_table, txn.customer_id, now)) > VELOCITY_THRESHOLD

(* C18: the Raise fraud alert step is entered for a record if and only if the
   record was persisted and its assessment has is_fraud true: never for a
   record with is_fraud false, never for a record whose Persist step failed. *)
C18_AlertIffFraud ==
    /\ Entered("alert") => Persisted /\ assessment.is_fraud
    /\ "persist" \in failed => ~Entered("alert")
    /\ Entered("complete") => (Entered("alert") <=> (Persisted /\ assessment.is_fraud))

\* a persisted fraud for which the alert step was entered
C18_Witness ==
    /\ pc = "returned" /\ Entered("alert") /\ Persisted /\ result.is_fraud

(* C19: any error raised outside the per-record loop, a failure while
   initialising the processor included, makes lambda_handler return the
   fatal-error result (status 500) rather than the normal summary or an
   uncaught exception. *)
C19_FatalResult ==
    result.step \in {"init", "event"} => pc = "fatal" /\ result.status = "fatal"

(* C20: at completion of a batch, processed equals the number of success
   summaries process_transaction returned (each for a persisted record),
   fraud_detected equals the number of those summaries with is_fraud true, so
   fraud_detected <= processed; a record that ended in error never
   contributes to fraud_detected. *)
C20_CountersMatchSummaries ==
    /\ pc # "returned" =>
          /\ processed_count = hist.summaries
          /\ fraud_count = hist.fraud_summaries
    /\ pc = "returned" => Persisted /\ result.status = "success"
    /\ fraud_count <= processed_count
    /\ hist.fraud_summaries <= hist.summaries

\* a batch of a processed record without fraud and a fraud that failed at Persist
C20_Witness ==
    /\ pc = "done"
    /\ hist.errors = <<"persist">> /\ assessment.is_fraud
    /\ processed_count = 1 /\ fraud_count = 0

(* C21: within one invocation the records are processed strictly in arrival
   order and without overlap: the next record is taken only when the handler
   is back at the head of its loop, records are taken one by one, and a
   collaborator is called only for the record taken last, so every call for
   record k precedes every call for record k+1. *)
C21_ArrivalOrder ==
    /\ [][idx' # idx =>
            /\ idx' = idx + 1
            /\ pc = "loop" /\ pc' = "decode"
            /\ calls' = {}]_vars
    /\ [][calls' # calls =>
            \/ idx' = idx /\ calls \subseteq calls' /\ pc \notin {"init", "loop", "done"}
            \/ idx' = idx + 1 /\ calls' = {}]_vars

\* the second record calls a collaborator after the first was processed
C21_Witness == idx = 2 /\ calls # {} /\ Len(hist.done) = 1

\* how often a step was entered for the current record
Count(step) == Cardinality({i \in DOMAIN trace : trace[i] = step})

(* C26: after Persist succeeds, Archive, Update profile and Emit metrics are
   each attempted exactly once and Raise fraud alert exactly once when
   is_fraud is true, whichever of them failed; the store write is made once
   and no later step of the record writes the store again or undoes it. *)
C26_BestEffortOnce ==
    /\ [](pc = "returned" =>
            /\ \A s \in {"persist", "archive", "update_profile", "metrics"} : Count(s) = 1
            /\ Count("alert") = (IF assessment.is_fraud THEN 1 ELSE 0))
    /\ [](Persisted => \A s \in DOMAIN Steps : Count(Steps[s]) <= 1)
    /\ [][Persisted => UNCHANGED transactions_table]_vars

\* a fraud completes although its archive and its profile update failed
C26_Witness ==
    /\ pc = "returned" /\ assessment.is_fraud
    /\ {"archive", "update_profile"} \subseteq failed
    /\ Count("alert") = 1

(* C27: for a customer with no stored profile, whenever the lookup itself
   succeeds (the repository answers 'not found'), the record is scored with
   the freshly created default profile (risk tier medium,
   average_monthly_spend 1000, transaction_count 0), never with the fallback
   profile. *)
C27_NotFoundGetsDefault ==
    (Entered("fetch_profile") /\ "profile_put" \in calls /\ ~Entered("update_profile")) =>
        /\ profile.risk_profile = "medium"
        /\ profile.average_monthly_spend = Num(1000 * Pow10(3))
        /\ profile.transaction_count = Num(0)

(* C28: no profile write happens for a record before its Score step, so a
   record that aborts at or before Persist leaves the customers table as it
   was before the record arrived. *)
C28_NoWriteBeforeScore ==
    [][(pc \in {"decode", "validate", "fetch_profile", "fetch_history"}) =>
            UNCHANGED customers_table]_vars

\* the weighted sum without the velocity signal, at the other signals' largest
\* values for an empty window (amount 1.0, location 0.6, time 0.4)
EmptyWindowMax ==
    Scale * WeightAmount + InternationalRisk * WeightLocation + NightRisk * WeightTime

(* C32: a record scored against an empty window (the customer has no recent
   history, or the history query failed) has a composite of at most 0.5, is
   never flagged is_fraud and never enters the Raise fraud alert step. *)
C32_EmptyWindowNoFraud ==
    (Entered("score") /\ (window = <<>> \/ "fetch_history" \in failed)) =>
        /\ WeightedSum(assessment.risk_factors) <= EmptyWindowMax
        /\ EmptyWindowMax <= 5 * Scale /\ EmptyWindowMax < FRAUD_THRESHOLD
        /\ assessment.risk_factors.velocity = 0
        /\ ~assessment.is_fraud
        /\ pc # "alert"
        /\ ~Entered("alert")

\* the history query failed although the customer has a burst of stored
\* transactions, and the record, at the largest signals an empty window
\* allows, completed without an alert
C32_Witness ==
    /\ pc = "returned"
    /\ "fetch_history" \in failed
    /\ QueryRecent(transactions_table, txn.customer_id, now) # <<>>
    /\ WeightedSum(assessment.risk_factors) = EmptyWindowMax
    /\ ~Entered("alert")

\* every stored profile has fraud_count <= transaction_count
FraudsWithinCount ==
    \A c \in Customers :
        customers_table[c] # NoItem =>
            FraudsOf(customers_table[c]) <= CountOf(customers_table[c])

\* a profile update that wrote the stored profile of customer c
UpdateWrote(c) ==
    /\ pc = "update_profile"
    /\ customers_table'[c] # customers_table[c]

\* the stored fraud_count grows by one for a fraud and not at all otherwise
FraudCountStep ==
    \A c \in Customers :
        UpdateWrote(c) =>
            FraudsOf(customers_table'[c]) =
                FraudsOf(customers_table[c]) + (IF assessment.is_fraud THEN 1 ELSE 0)

(* C33: starting from stored profiles with fraud_count <= transaction_count
   (every initial state has them so), every stored profile keeps fraud_count <= transaction_count after any
   sequence of processed records and collaborator failures, and a profile
   update raises the stored fraud_count by exactly one when the record's
   is_fraud is true and leaves it as it was otherwise. *)
C33_FraudCount ==
    /\ []FraudsWithinCount
    /\ [][FraudCountStep]_vars

====
